---- MODULE Spec2Model ----
(***************************************************************************)
(* NRDC Missing Anchors dashboard (src/pages/2_NRDC_Missing_Anchors.py).   *)
(*                                                                         *)
(* The page is a Streamlit script: every user interaction re-runs the      *)
(* whole script against the DataFrame memoised by @st.cache_data.  The     *)
(* model keeps the input file, the cache, and the outputs of the last      *)
(* script run.  Tables have the two columns the script names, Distance and *)
(* Market; distances are whole numbers of the unit the file uses; text is  *)
(* a sequence of one-character strings so that CSV writing and reading are *)
(* modelled character by character.                                        *)
(*                                                                         *)
(* Spec is the dashboard session: script runs interleaved with changes of  *)
(* the file.  SpecFn and SpecCsv apply the filter, aggregation and export  *)
(* stages to a loaded Dataset under any FilterState, the second over       *)
(* labels that need quoting, hold a line break or read as numbers.         *)
(***************************************************************************)
EXTENDS Integers, Sequences, FiniteSets, TLC

VARIABLES
    file,              \* the CSV file: whether it exists, and its records below the header
    cache,             \* st.cache_data entry of load_data(): whether filled, the frame,
                       \* which branch filled it and the records it read
    reads,             \* number of pd.read_csv calls made by this process
    pc,                \* where the last script run ended
    df,                \* the frame load_data() returned to the last run
    dist_range,        \* value of the distance slider, <<lo, hi>>
    selected_markets,  \* value of the market multiselect (a set of cells)
    filtered_df,       \* rows of the filtered frame
    metrics,           \* the four st.metric values
    csv_filtered,      \* text handed to the first download button
    market_to_export,  \* value of the selectbox
    market_csv,        \* text handed to the second download button
    rendered           \* the UI elements the last run emitted

vars == <<file, cache, reads, pc, df, dist_range, selected_markets, filtered_df,
          metrics, csv_filtered, market_to_export, market_csv, rendered>>

(***************************************************************************)
(* Bounds of the model.                                                    *)
(***************************************************************************)
MaxRows == 2        \* rows of the input file in the dashboard session
MaxRowsFn == 3      \* rows of the input file when the stages are applied directly
MaxRowsCsv == 2     \* rows of the input file in the CSV round-trip runs
MaxReads == 2       \* cap on the read counter (only a broken cache gets there)

(***************************************************************************)
(* Text.                                                                   *)
(***************************************************************************)
DigitChars == <<"0", "1", "2", "3", "4", "5", "6", "7", "8", "9">>

Digits == {DigitChars[i] : i \in 1..10}

DigitVal(c) == (CHOOSE i \in 1..10 : DigitChars[i] = c) - 1

\* Code-point order of the characters the model uses.
CharOrd(c) ==
    CASE c = "\n" -> 10 [] c = "\"" -> 34 [] c = "," -> 44 [] c = "." -> 46
      [] c \in Digits -> 48 + DigitVal(c) [] c = "A" -> 65 [] c = "B" -> 66 [] c = "D" -> 68
      [] c = "M" -> 77 [] c = "a" -> 97 [] c = "c" -> 99 [] c = "e" -> 101
      [] c = "i" -> 105 [] c = "k" -> 107 [] c = "n" -> 110 [] c = "r" -> 114
      [] c = "s" -> 115 [] c = "t" -> 116 [] c = "x" -> 120

RECURSIVE TextLt(_, _)
\* Python's str.__lt__: lexicographic by code point, a proper prefix first.
TextLt(a, b) ==
    IF b = <<>> THEN FALSE
    ELSE IF a = <<>> THEN TRUE
    ELSE IF Head(a) = Head(b) THEN TextLt(Tail(a), Tail(b))
    ELSE CharOrd(Head(a)) < CharOrd(Head(b))

(***************************************************************************)
(* Cells and frames.  A cell is an int64, a float64, a str or the missing  *)
(* value NaN; a frame is its column names and its rows.                    *)
(***************************************************************************)
IntCell(k) == [t |-> "int", n |-> k, s |-> <<>>]
FloatCell(k) == [t |-> "float", n |-> k, s |-> <<>>]
StrCell(x) == [t |-> "str", n |-> 0, s |-> x]
NaN == [t |-> "nan", n |-> 0, s |-> <<>>]

IsNum(c) == c.t \in {"int", "float"}

DistanceCol == <<"D", "i", "s", "t", "a", "n", "c", "e">>
MarketCol == <<"M", "a", "r", "k", "e", "t">>
Header == <<DistanceCol, MarketCol>>

Row(d, m) == [Distance |-> d, Market |-> m]
Frame(cols, rs) == [columns |-> cols, rows |-> rs]

\* pd.DataFrame(): no columns, no rows.
EmptyDataFrame == Frame(<<>>, <<>>)

\* Variant: only a frame without columns counts as empty.
IsEmptyNoColumns(f) == Len(f.columns) = 0

\* DataFrame.empty: any axis of length 0.
IsEmpty(f) == Len(f.columns) = 0 \/ Len(f.rows) = 0

(***************************************************************************)
(* Numbers as text, as pandas' CSV reader and to_numeric read them.  The   *)
(* model's numbers are whole, so the numeric texts are digits, optionally  *)
(* followed by a point and zeros.                                          *)
(***************************************************************************)
AllIn(x, S) == \A i \in 1..Len(x) : x[i] \in S

PointAt(x) == IF \E i \in 1..Len(x) : x[i] = "."
              THEN CHOOSE i \in 1..Len(x) : x[i] = "." /\ \A j \in 1..(i - 1) : x[j] # "."
              ELSE 0

IsIntText(x) == Len(x) > 0 /\ AllIn(x, Digits)

IsFloatText(x) ==
    LET p == PointAt(x) IN
    /\ p > 1
    /\ AllIn(SubSeq(x, 1, p - 1), Digits)
    /\ AllIn(SubSeq(x, p + 1, Len(x)), {"0"})

IsNumText(x) == IsIntText(x) \/ IsFloatText(x)

RECURSIVE DigitsVal(_, _)
DigitsVal(x, acc) ==
    IF x = <<>> THEN acc ELSE DigitsVal(Tail(x), acc * 10 + DigitVal(Head(x)))

NumVal(x) == IF IsIntText(x) THEN DigitsVal(x, 0)
             ELSE DigitsVal(SubSeq(x, 1, PointAt(x) - 1), 0)

(***************************************************************************)
(* pd.read_csv's per-column type inference over the fields of a column:    *)
(* int64 when every field is an integer, float64 when every field is a     *)
(* number or empty (empty reads as NaN), otherwise str with NaN for empty. *)
(***************************************************************************)
InferColumn(fields) ==
    IF \A i \in 1..Len(fields) : IsIntText(fields[i])
    THEN [i \in 1..Len(fields) |-> IntCell(NumVal(fields[i]))]
    ELSE IF \A i \in 1..Len(fields) : fields[i] = <<>> \/ IsNumText(fields[i])
    THEN [i \in 1..Len(fields) |->
            IF fields[i] = <<>> THEN NaN ELSE FloatCell(NumVal(fields[i]))]
    ELSE [i \in 1..Len(fields) |->
            IF fields[i] = <<>> THEN NaN ELSE StrCell(fields[i])]

\* The frame pd.read_csv builds from the records of a CSV text (header first).
FrameOfRecords(records) ==
    LET body == Tail(records)
        dcol == InferColumn([i \in 1..Len(body) |-> body[i][1]])
        mcol == InferColumn([i \in 1..Len(body) |-> body[i][2]])
    IN Frame(Head(records), [i \in 1..Len(body) |-> Row(dcol[i], mcol[i])])

\* pd.to_numeric(column, errors='coerce').
ToNumeric(col) ==
    IF \A i \in 1..Len(col) : IsNum(col[i]) THEN col
    ELSE LET ok(c) == c.t = "str" /\ IsNumText(c.s)
             val(c) == IF IsNum(c) THEN c.n ELSE NumVal(c.s)
         IN IF \A i \in 1..Len(col) : IsNum(col[i]) \/ (ok(col[i]) /\ IsIntText(col[i].s))
            THEN [i \in 1..Len(col) |-> IntCell(val(col[i]))]
            ELSE [i \in 1..Len(col) |->
                    IF IsNum(col[i]) \/ ok(col[i]) THEN FloatCell(val(col[i])) ELSE NaN]

(***************************************************************************)
(* load_data(): the body that runs on a cache miss.                        *)
(***************************************************************************)
FileWith(recs) == [exists |-> TRUE, records |-> recs]

\* Variant: the existence test taken the wrong way round.
load_data_inverted(f) ==
    IF ~f.exists
    THEN LET raw == FrameOfRecords(<<Header>> \o f.records)
             dist == ToNumeric([i \in 1..Len(raw.rows) |-> raw.rows[i].Distance])
         IN Frame(raw.columns,
                  [i \in 1..Len(raw.rows) |-> Row(dist[i], raw.rows[i].Market)])
    ELSE EmptyDataFrame

load_data(f) ==
    IF f.exists
    THEN LET raw == FrameOfRecords(<<Header>> \o f.records)
             dist == ToNumeric([i \in 1..Len(raw.rows) |-> raw.rows[i].Distance])
         IN Frame(raw.columns,
                  [i \in 1..Len(raw.rows) |-> Row(dist[i], raw.rows[i].Market)])
    ELSE EmptyDataFrame

(***************************************************************************)
(* Series helpers of the else-branch of the script.                        *)
(***************************************************************************)
CellLt(a, b) == IF a.t = "str" /\ b.t = "str" THEN TextLt(a.s, b.s) ELSE a.n < b.n

Distances(rs) == {rs[i].Distance : i \in 1..Len(rs)} \ {NaN}

\* Series.min() / Series.max(): missing values are skipped, NaN when nothing is left.
SeriesMin(rs) ==
    IF Distances(rs) = {} THEN NaN
    ELSE CHOOSE c \in Distances(rs) : \A o \in Distances(rs) : c.n <= o.n

SeriesMax(rs) ==
    IF Distances(rs) = {} THEN NaN
    ELSE CHOOSE c \in Distances(rs) : \A o \in Distances(rs) : c.n >= o.n

\* float(x)
ToFloat(c) == IF c = NaN THEN NaN ELSE FloatCell(c.n)

RECURSIVE SortedSeq(_)
\* sorted(...) of a set of mutually comparable cells.
SortedSeq(S) ==
    IF S = {} THEN <<>>
    ELSE LET lo == CHOOSE c \in S : \A o \in S \ {c} : CellLt(c, o)
         IN <<lo>> \o SortedSeq(S \ {lo})

\* sorted(df['Market'].unique())
AllMarkets(f) == SortedSeq({f.rows[i].Market : i \in 1..Len(f.rows)})

(***************************************************************************)
(* The filter: three element-wise masks combined with &, then boolean      *)
(* indexing.  A comparison with NaN on either side is False.               *)
(***************************************************************************)
Ge(c, x) == IsNum(c) /\ IsNum(x) /\ c.n >= x.n
\* Variant: the upper end of the range excluded.
LeExclusive(c, x) == IsNum(c) /\ IsNum(x) /\ c.n < x.n
Le(c, x) == IsNum(c) /\ IsNum(x) /\ c.n <= x.n
\* Variant: an empty selection stands for every market.
IsInOrNoneGiven(c, S) == S = {} \/ c \in S

\* Series.isin(values)
IsIn(c, S) == c \in S

\* Variant: rows are dropped when outside the range, so a NaN stays.
MaskNanPasses(rs, range, sel) ==
    [i \in 1..Len(rs) |->
        /\ ~(IsNum(rs[i].Distance) /\ IsNum(range[1]) /\ rs[i].Distance.n < range[1].n)
        /\ ~(IsNum(rs[i].Distance) /\ IsNum(range[2]) /\ rs[i].Distance.n > range[2].n)
        /\ IsIn(rs[i].Market, sel)]

Mask(rs, range, sel) ==
    [i \in 1..Len(rs) |->
        /\ Ge(rs[i].Distance, range[1])
        /\ Le(rs[i].Distance, range[2])
        /\ IsIn(rs[i].Market, sel)]

RECURSIVE BoolIndex(_, _)
\* df[mask]: the rows whose mask entry is True, in order.
BoolIndex(rs, mask) ==
    IF rs = <<>> THEN <<>>
    ELSE (IF Head(mask) THEN <<Head(rs)>> ELSE <<>>) \o BoolIndex(Tail(rs), Tail(mask))

Filter(rs, range, sel) == BoolIndex(rs, Mask(rs, range, sel))

(***************************************************************************)
(* The four metrics.                                                       *)
(***************************************************************************)
RECURSIVE SumDistance(_)
SumDistance(rs) ==
    IF rs = <<>> THEN 0
    ELSE (IF IsNum(Head(rs).Distance) THEN Head(rs).Distance.n ELSE 0)
         + SumDistance(Tail(rs))

CountDistance(rs) == Cardinality({i \in 1..Len(rs) : IsNum(rs[i].Distance)})

\* f"{x:.2f}" of x = sum / count, as the number of hundredths shown.  The
\* float is rounded half-even; with whole distances a tie needs a count that
\* is a multiple of 8.
\* Variant: the hundredths cut off instead of rounded.
Fixed2Truncated(sum, count) == (100 * sum) \div count

Fixed2(sum, count) ==
    LET q == (100 * sum) \div count
        r == (100 * sum) % count
    IN IF 2 * r > count \/ (2 * r = count /\ q % 2 = 1) THEN q + 1 ELSE q

NanText == [kind |-> "nan", h |-> 0]
Fixed2Text(h) == [kind |-> "fixed2", h |-> h]

\* Variant: an empty mean shown as 0.00.
AvgDistanceZeroIfEmpty(rs) ==
    IF CountDistance(rs) = 0 THEN Fixed2Text(0)
    ELSE Fixed2Text(Fixed2(SumDistance(rs), CountDistance(rs)))

\* f"{filtered_df['Distance'].mean():.2f}"
AvgDistance(rs) ==
    IF CountDistance(rs) = 0 THEN NanText
    ELSE Fixed2Text(Fixed2(SumDistance(rs), CountDistance(rs)))

\* Series.nunique(): distinct values, missing ones not counted.
NUnique(rs) == Cardinality({rs[i].Market : i \in 1..Len(rs)} \ {NaN})

Metrics(rs) ==
    [total |-> Len(rs), markets |-> NUnique(rs),
     avg |-> AvgDistance(rs), max |-> SeriesMax(rs)]

(***************************************************************************)
(* DataFrame.to_csv(index=False): csv.writer with QUOTE_MINIMAL, "," as    *)
(* delimiter, '"' as quote character (doubled inside a quoted field) and   *)
(* "\n" as line terminator.  No index column is written.                   *)
(***************************************************************************)
RECURSIVE IntText(_)
IntText(k) ==
    IF k < 10 THEN <<DigitChars[k + 1]>>
    ELSE IntText(k \div 10) \o <<DigitChars[(k % 10) + 1]>>

\* str() of a cell as to_csv writes it: repr of a float keeps ".0", NaN is empty.
CellText(c) ==
    CASE c.t = "int" -> IntText(c.n)
      [] c.t = "float" -> IntText(c.n) \o <<".", "0">>
      [] c.t = "str" -> c.s
      [] c.t = "nan" -> <<>>

NeedsQuote(x) == \E i \in 1..Len(x) : x[i] \in {",", "\"", "\n"}

RECURSIVE DoubleQuotes(_)
DoubleQuotes(x) ==
    IF x = <<>> THEN <<>>
    ELSE (IF Head(x) = "\"" THEN <<"\"", "\"">> ELSE <<Head(x)>>) \o DoubleQuotes(Tail(x))

\* Variant: fields written without quoting.
CsvFieldUnquoted(x) == x

CsvField(x) == IF NeedsQuote(x) THEN <<"\"">> \o DoubleQuotes(x) \o <<"\"">> ELSE x

CsvLine(fields) == CsvField(fields[1]) \o <<",">> \o CsvField(fields[2]) \o <<"\n">>

RECURSIVE CsvLines(_)
CsvLines(rs) ==
    IF rs = <<>> THEN <<>>
    ELSE CsvLine(<<CellText(Head(rs).Distance), CellText(Head(rs).Market)>>)
         \o CsvLines(Tail(rs))

to_csv(cols, rs) == CsvLine(cols) \o CsvLines(rs)

(***************************************************************************)
(* pd.read_csv on a text: the tokenizer splits it into records of fields   *)
(* (a quoted field may hold delimiters, line breaks and doubled quotes),   *)
(* then the columns are typed as for the input file.                       *)
(***************************************************************************)
RECURSIVE Tokenize(_, _, _, _, _)
\* mode: "field" outside quotes, "quoted" inside, "quote" after a quote seen inside.
Tokenize(text, mode, field, record, records) ==
    IF text = <<>>
    THEN IF field = <<>> /\ record = <<>> THEN records
         ELSE Append(records, Append(record, field))
    ELSE LET c == Head(text)
             rest == Tail(text)
         IN CASE mode = "quoted" /\ c = "\"" -> Tokenize(rest, "quote", field, record, records)
              [] mode = "quoted" /\ c # "\"" ->
                    Tokenize(rest, "quoted", Append(field, c), record, records)
              [] mode = "quote" /\ c = "\"" ->
                    Tokenize(rest, "quoted", Append(field, c), record, records)
              [] mode # "quoted" /\ c = "," ->
                    Tokenize(rest, "field", <<>>, Append(record, field), records)
              [] mode # "quoted" /\ c = "\n" ->
                    Tokenize(rest, "field", <<>>, <<>>, Append(records, Append(record, field)))
              [] mode = "field" /\ c = "\"" /\ field = <<>> ->
                    Tokenize(rest, "quoted", field, record, records)
              [] OTHER -> Tokenize(rest, "field", Append(field, c), record, records)

read_csv(text) == FrameOfRecords(Tokenize(text, "field", <<>>, <<>>, <<>>))

\* Lines of a text: its line terminators.
LineCount(text) == Cardinality({i \in 1..Len(text) : text[i] = "\n"})

(***************************************************************************)
(* The else-branch of the script (lines 37-127) for a loaded frame and the *)
(* values the three widgets return.                                        *)
(***************************************************************************)
\* df['Market'] == m, element-wise; a missing value equals nothing.
Eq(c, m) == c # NaN /\ m # NaN /\ c = m

\* Variant: the export taken from the filtered frame.
TargetedExportOfView(ns) ==
    to_csv(ns.df.columns,
           BoolIndex(ns.filtered_df,
                     [i \in 1..Len(ns.filtered_df) |->
                        Eq(ns.filtered_df[i].Market, ns.market_to_export)]))

\* df[df['Market'] == market_to_export].to_csv(index=False); ns holds the
\* script's variables in scope at line 121.
TargetedExport(ns) ==
    to_csv(ns.df.columns,
           BoolIndex(ns.df.rows,
                     [i \in 1..Len(ns.df.rows) |->
                        Eq(ns.df.rows[i].Market, ns.market_to_export)]))

Script(f, range, sel, exp) ==
    LET view == Filter(f.rows, range, sel)
    IN [dist_range |-> range,
        selected_markets |-> sel,
        filtered_df |-> view,
        metrics |-> Metrics(view),
        csv_filtered |-> to_csv(f.columns, view),
        market_to_export |-> exp,
        market_csv |-> TargetedExport([df |-> f, filtered_df |-> view,
                                       market_to_export |-> exp])]

\* What the variables hold when the else-branch did not run.
NoOutputs ==
    [dist_range |-> <<NaN, NaN>>, selected_markets |-> {}, filtered_df |-> <<>>,
     metrics |-> Metrics(<<>>), csv_filtered |-> <<>>, market_to_export |-> NaN,
     market_csv |-> <<>>]

\* Widget defaults: value=(min_dist, max_dist), default=all_markets, first option.
DefaultRange(f) == <<ToFloat(SeriesMin(f.rows)), ToFloat(SeriesMax(f.rows))>>
ToSet(q) == {q[i] : i \in 1..Len(q)}
DefaultMarkets(f) == ToSet(AllMarkets(f))
DefaultExport(f) == IF AllMarkets(f) = <<>> THEN NaN ELSE AllMarkets(f)[1]

\* Values a user can give the slider: the stops modelled are the whole numbers
\* between min_dist and max_dist.  When no Distance parsed both bounds are NaN
\* and the slider has nothing else to return.
SliderRanges(f) ==
    LET lo == DefaultRange(f)[1]
        hi == DefaultRange(f)[2]
    IN IF lo = NaN THEN {<<NaN, NaN>>}
       ELSE {<<FloatCell(p[1]), FloatCell(p[2])>> :
                p \in {q \in (lo.n..hi.n) \X (lo.n..hi.n) : q[1] <= q[2]}}

(***************************************************************************)
(* Input files of the dashboard session: a header and up to MaxRows        *)
(* records whose Distance field is a number or unparseable text and whose  *)
(* Market field is a label (the file format gives every row a Market).     *)
(***************************************************************************)
Unparseable == <<"x">>
DistanceTexts == {<<"1", ".", "0">>, <<"3", ".", "0">>, Unparseable}
MarketTexts == {<<"A">>, <<"B">>}

RecordsUpTo(n, dts, mts) == UNION {[1..k -> dts \X mts] : k \in 0..n}

Files == RecordsUpTo(MaxRows, DistanceTexts, MarketTexts)

(***************************************************************************)
(* UI elements.                                                            *)
(***************************************************************************)
SidebarFound == {"sidebar path", "sidebar file found"}
SidebarMissing == {"sidebar path", "sidebar file not found", "sidebar directory listing"}
ErrorBanner == {"error banner"}
FilterWidgets == {"distance slider", "market multiselect"}
MetricElems == {"metric total", "metric markets", "metric avg", "metric max"}
ChartElems == {"bar chart", "histogram"}
TableElems == {"data table"}
DownloadElems == {"download filtered", "market selectbox", "download market"}
DashboardElems ==
    {"title", "info"} \cup FilterWidgets \cup MetricElems \cup ChartElems
        \cup TableElems \cup DownloadElems

(***************************************************************************)
(* The dashboard session.                                                  *)
(***************************************************************************)
EmptyCache == [filled |-> FALSE, frame |-> EmptyDataFrame, found |-> FALSE, source |-> <<>>]

\* @st.cache_data: the entry a call of load_data() leaves, given the entry it finds.
\* Variant: no memoisation, the body runs on every call.
CacheLookupAlwaysRuns(c, f) ==
    [ran |-> TRUE,
     entry |-> [filled |-> TRUE, frame |-> load_data(f), found |-> f.exists,
                source |-> IF f.exists THEN f.records ELSE <<>>]]

\* ran tells whether the body of load_data() was executed.
CacheLookup(c, f) ==
    IF c.filled THEN [ran |-> FALSE, entry |-> c]
    ELSE [ran |-> TRUE,
          entry |-> [filled |-> TRUE, frame |-> load_data(f), found |-> f.exists,
                     source |-> IF f.exists THEN f.records ELSE <<>>]]

Init ==
    /\ file \in {[exists |-> e, records |-> r] : e \in BOOLEAN, r \in Files}
    /\ cache = EmptyCache
    /\ reads = 0
    /\ pc = "idle"
    /\ df = EmptyDataFrame
    /\ dist_range = NoOutputs.dist_range
    /\ selected_markets = NoOutputs.selected_markets
    /\ filtered_df = NoOutputs.filtered_df
    /\ metrics = NoOutputs.metrics
    /\ csv_filtered = NoOutputs.csv_filtered
    /\ market_to_export = NoOutputs.market_to_export
    /\ market_csv = NoOutputs.market_csv
    /\ rendered = {}

SetOutputs(out) ==
    /\ dist_range' = out.dist_range
    /\ selected_markets' = out.selected_markets
    /\ filtered_df' = out.filtered_df
    /\ metrics' = out.metrics
    /\ csv_filtered' = out.csv_filtered
    /\ market_to_export' = out.market_to_export
    /\ market_csv' = out.market_csv

\* A browser opens the page: the widgets return their defaults.
Defaults(f) == {<<DefaultRange(f), DefaultMarkets(f), DefaultExport(f)>>}

\* The user has moved widgets: they return the values they hold.
Choices(f) == SliderRanges(f) \X (SUBSET DefaultMarkets(f)) \X ToSet(AllMarkets(f))

\* One run of the script, top to bottom; fresh tells whether the widgets are
\* at their defaults.
RunScript(fresh) ==
    LET call == CacheLookup(cache, file)
        entry == call.entry
        f == entry.frame
        sidebar == IF entry.found THEN SidebarFound ELSE SidebarMissing
        reading == call.ran /\ file.exists
    IN /\ reading => reads < MaxReads
       /\ cache' = entry
       /\ reads' = IF reading THEN reads + 1 ELSE reads
       /\ df' = f
       /\ IF IsEmpty(f)
          THEN /\ pc' = "error"
               /\ rendered' = sidebar \cup ErrorBanner
               /\ SetOutputs(NoOutputs)
          ELSE /\ pc' = "done"
               /\ rendered' = sidebar \cup DashboardElems
               /\ \E w \in (IF fresh THEN Defaults(f) ELSE Choices(f)) :
                     SetOutputs(Script(f, w[1], w[2], w[3]))
       /\ UNCHANGED file

OpenPage == RunScript(TRUE)

Interact ==
    /\ pc # "idle"
    /\ RunScript(FALSE)

\* The environment: the file is removed, put in place, or cut down to its header.
RemoveFile ==
    /\ file.exists
    /\ file' = [file EXCEPT !.exists = FALSE]
    /\ UNCHANGED <<cache, reads, pc, df, dist_range, selected_markets, filtered_df,
                   metrics, csv_filtered, market_to_export, market_csv, rendered>>

PlaceFile ==
    /\ ~file.exists
    /\ file' = [file EXCEPT !.exists = TRUE]
    /\ UNCHANGED <<cache, reads, pc, df, dist_range, selected_markets, filtered_df,
                   metrics, csv_filtered, market_to_export, market_csv, rendered>>

TruncateFile ==
    /\ file.exists
    /\ file.records # <<>>
    /\ file' = [file EXCEPT !.records = <<>>]
    /\ UNCHANGED <<cache, reads, pc, df, dist_range, selected_markets, filtered_df,
                   metrics, csv_filtered, market_to_export, market_csv, rendered>>

Next == OpenPage \/ Interact \/ RemoveFile \/ PlaceFile \/ TruncateFile

Spec == Init /\ [][Next]_vars

(***************************************************************************)
(* The stages applied directly: the Dataset is a loaded file, the          *)
(* FilterState is any range with lo <= hi over a few points and any set of *)
(* the Dataset's markets; one step filters, aggregates and exports.        *)
(***************************************************************************)
FnDistanceTexts == {<<"1", ".", "0">>, <<"5", ".", "0">>, <<"9", ".", "0">>, Unparseable}
FnPoints == {0, 5, 6, 10}
FnFiles == RecordsUpTo(MaxRowsFn, FnDistanceTexts, MarketTexts)

CsvDistanceTexts == {<<"1", ".", "0">>, <<"5">>}
CsvMarketTexts == {<<"A">>, <<"7">>, <<"B", ",", "\"">>, <<"A", "\n", "B">>}
CsvPoints == {0, 10}
CsvFiles == RecordsUpTo(MaxRowsCsv, CsvDistanceTexts, CsvMarketTexts)

Ranges(points) ==
    {<<FloatCell(p[1]), FloatCell(p[2])>> : p \in {q \in points \X points : q[1] <= q[2]}}

InitStages(files, points) ==
    /\ file \in {FileWith(r) : r \in files}
    /\ cache = EmptyCache
    /\ reads = 0
    /\ pc = "input"
    /\ df = load_data(file)
    /\ dist_range \in Ranges(points)
    /\ selected_markets \in SUBSET DefaultMarkets(df)
    /\ filtered_df = NoOutputs.filtered_df
    /\ metrics = NoOutputs.metrics
    /\ csv_filtered = NoOutputs.csv_filtered
    /\ market_to_export = NoOutputs.market_to_export
    /\ market_csv = NoOutputs.market_csv
    /\ rendered = {}

ApplyStages ==
    /\ pc = "input"
    /\ pc' = "applied"
    /\ filtered_df' = Filter(df.rows, dist_range, selected_markets)
    /\ metrics' = Metrics(filtered_df')
    /\ csv_filtered' = to_csv(df.columns, filtered_df')
    /\ UNCHANGED <<file, cache, reads, df, dist_range, selected_markets,
                   market_to_export, market_csv, rendered>>

NextFn == ApplyStages

SpecFn == InitStages(FnFiles, FnPoints) /\ [][NextFn]_vars

SpecCsv == InitStages(CsvFiles, CsvPoints) /\ [][NextFn]_vars

(***************************************************************************)
(* Claims.                                                                 *)
(***************************************************************************)
\* The FilterState's two predicates, stated on the numbers and labels themselves.
InRange(r) ==
    /\ r.Distance.t \in {"int", "float"}
    /\ dist_range[1].t = "float" /\ dist_range[2].t = "float"
    /\ dist_range[1].n <= r.Distance.n
    /\ r.Distance.n <= dist_range[2].n

Selected(r) == r.Market \in selected_markets

Kept == {i \in 1..Len(df.rows) : InRange(df.rows[i]) /\ Selected(df.rows[i])}

\* view is the subsequence of rs at the indices idx, in order.
IsSubsequenceAt(view, rs, idx) ==
    /\ Len(view) = Cardinality(idx)
    /\ \E at \in [1..Len(view) -> idx] :
          /\ \A j, k \in 1..Len(view) : j < k => at[j] < at[k]
          /\ \A k \in 1..Len(view) : view[k] = rs[at[k]]

\* C1: for every Dataset, every range lo <= hi and every set of markets, the
\* filtered view is exactly the Dataset rows, in Dataset order, whose Distance
\* lies in [lo, hi] (both ends included) and whose Market is selected.
C1_FilterExact ==
    pc = "applied" =>
        /\ \A k \in 1..Len(filtered_df) : InRange(filtered_df[k]) /\ Selected(filtered_df[k])
        /\ IsSubsequenceAt(filtered_df, df.rows, Kept)

\* A view that keeps a row sitting on each end of the range and drops one row
\* for its distance and another for its market.
C1_Witness ==
    /\ pc = "applied"
    /\ \E k \in 1..Len(filtered_df) : filtered_df[k].Distance.n = dist_range[2].n
    /\ \E k \in 1..Len(filtered_df) : filtered_df[k].Distance.n = dist_range[1].n
    /\ \E i \in 1..Len(df.rows) : ~InRange(df.rows[i]) /\ Selected(df.rows[i])
    /\ \E i \in 1..Len(df.rows) : InRange(df.rows[i]) /\ ~Selected(df.rows[i])

RECURSIVE DistanceTotal(_, _)
\* Sum of the Distance values of rows 1..k of a view (a view holds no NaN).
DistanceTotal(view, k) ==
    IF k = 0 THEN 0 ELSE view[k].Distance.n + DistanceTotal(view, k - 1)

ViewTotal == DistanceTotal(filtered_df, Len(filtered_df))

CountsAndMax ==
    /\ metrics.total = Len(filtered_df)
    /\ metrics.markets = Cardinality({filtered_df[k].Market : k \in 1..Len(filtered_df)})
    /\ \E k \in 1..Len(filtered_df) : metrics.max = filtered_df[k].Distance
    /\ \A k \in 1..Len(filtered_df) : filtered_df[k].Distance.n <= metrics.max.n

ScenarioRows ==
    <<Row(FloatCell(1), StrCell(<<"A">>)), Row(FloatCell(5), StrCell(<<"B">>)),
      Row(FloatCell(9), StrCell(<<"A">>))>>

InScenario ==
    /\ df.rows = ScenarioRows
    /\ dist_range = <<FloatCell(0), FloatCell(6)>>
    /\ selected_markets = {StrCell(<<"A">>), StrCell(<<"B">>)}

ScenarioMetrics ==
    InScenario =>
        /\ filtered_df = SubSeq(ScenarioRows, 1, 2)
        /\ metrics = [total |-> 2, markets |-> 2, avg |-> [kind |-> "fixed2", h |-> 300],
                      max |-> FloatCell(5)]

\* C8 as stated: on a non-empty view the metrics are the row count, the number
\* of distinct markets, the arithmetic mean of the distances and the greatest
\* distance; the scenario gives 2, 2, 3.0 and 5.0.
C8_AsStated ==
    (pc = "applied" /\ filtered_df # <<>>) =>
        /\ CountsAndMax
        /\ metrics.avg.kind = "fixed2"
        /\ metrics.avg.h * Len(filtered_df) = 100 * ViewTotal
        /\ ScenarioMetrics

\* C8, amended: as stated, except that Avg Distance is the arithmetic mean
\* rounded to two decimal places (it is shown as text with two decimals), so it
\* is within half a hundredth of the mean.
C8_MetricsRounded ==
    (pc = "applied" /\ filtered_df # <<>>) =>
        /\ CountsAndMax
        /\ metrics.avg.kind = "fixed2"
        /\ LET n == Len(filtered_df)
               off == metrics.avg.h * n - 100 * ViewTotal
           IN 2 * off <= n /\ -2 * off <= n
        /\ ScenarioMetrics

\* A three-row view over two markets whose mean has no two-decimal form.
C8_Witness ==
    /\ pc = "applied"
    /\ Len(filtered_df) = 3
    /\ (100 * ViewTotal) % 3 # 0
    /\ metrics.markets = 2
    /\ metrics.max.n > filtered_df[1].Distance.n

\* The scenario of the spec is one of the inputs.
C8_ScenarioReached == pc = "applied" /\ InScenario

\* The records a view's export should hold: the header, then the texts of each row.
ViewRecords ==
    <<df.columns>> \o
    [k \in 1..Len(filtered_df) |->
        <<CellText(filtered_df[k].Distance), CellText(filtered_df[k].Market)>>]

HasLineBreak(view) ==
    \E k \in 1..Len(view) : \E i \in 1..Len(view[k].Market.s) : view[k].Market.s[i] = "\n"

\* Every Market cell of the view is text that reads as a number, so that type
\* inference reads the column back as numbers.
ReadsBackAsNumbers(view) ==
    /\ view # <<>>
    /\ \A k \in 1..Len(view) :
          view[k].Market.t = "str" /\ (IsIntText(view[k].Market.s) \/ IsFloatText(view[k].Market.s))

C7_EmptyViewReached ==
    /\ pc = "applied" /\ df.rows # <<>> /\ filtered_df = <<>>
    /\ csv_filtered = CsvLine(Header)

(***************************************************************************)
(* Claims about the dashboard session.                                     *)
(***************************************************************************)
Ran == pc \in {"error", "done"}

\* C2: when the file is absent at load time, load_data returns an empty
\* Dataset, the run shows the error banner, and no filter widget, metric,
\* chart, data table or download action is rendered in that run.
C2_AbsentFile ==
    (cache.filled /\ ~cache.found) =>
        /\ cache.frame.rows = <<>>
        /\ pc = "error"
        /\ "error banner" \in rendered
        /\ rendered \cap (FilterWidgets \cup MetricElems \cup ChartElems
                            \cup TableElems \cup DownloadElems) = {}

\* The file was absent when first loaded and has been put in place since.
C2_Witness ==
    /\ cache.filled /\ ~cache.found
    /\ pc = "error"
    /\ "sidebar directory listing" \in rendered
    /\ file.exists /\ file.records # <<>>

\* C10: in every run the error banner is shown iff the Dataset has no rows and
\* the dashboard is rendered iff it has at least one; a file holding only its
\* header gives the same error state as an absent file.
C10_BannerIffNoRows ==
    Ran =>
        /\ ("error banner" \in rendered) <=> (Len(df.rows) = 0)
        /\ (DashboardElems \subseteq rendered) <=> (Len(df.rows) >= 1)
        /\ Len(df.rows) = 0 => rendered \cap DashboardElems = {}
        /\ (cache.found /\ cache.source = <<>>) =>
              pc = "error" /\ rendered \ SidebarFound = {"error banner"}

\* A file that is present and holds only the header row.
C10_Witness ==
    /\ pc = "error"
    /\ cache.found /\ cache.source = <<>>
    /\ "sidebar file found" \in rendered
    /\ "error banner" \in rendered

\* C3: the file is read at most once, and once loaded every run sees the
\* Dataset the first load returned, whatever the file has become since.
C3_LoadedOnce ==
    /\ [](reads <= 1)
    /\ [][cache.filled => (cache' = cache /\ df' = cache.frame /\ reads' = reads)]_vars

\* A Dataset still served after its file was cut down to the header.
C3_Witness ==
    /\ pc = "done" /\ reads = 1
    /\ file.exists /\ file.records = <<>>
    /\ df.rows = load_data(FileWith(cache.source)).rows
    /\ Len(df.rows) = 2
    /\ selected_markets = {}

\* The records of a CSV text holding the given rows under the header.
RecordsOf(rs) ==
    <<Header>> \o [k \in 1..Len(rs) |-> <<CellText(rs[k].Distance), CellText(rs[k].Market)>>]

\* The rows of the Dataset at the indices idx, in Dataset order.
RowsAt(idx) ==
    [k \in 1..Cardinality(idx) |->
        df.rows[CHOOSE i \in idx : Cardinality({j \in idx : j < i}) = k - 1]]

MarketIs(m) == {i \in 1..Len(df.rows) : df.rows[i].Market = m}

\* C4: the targeted export holds exactly the rows of the full Dataset whose
\* Market is the chosen one, in Dataset order, and two runs on the same
\* Dataset with the same chosen market give the same export whatever the
\* distance range and the selected markets are.
C4_ExportIgnoresFilters ==
    /\ [](pc = "done" =>
            Tokenize(market_csv, "field", <<>>, <<>>, <<>>)
                = RecordsOf(RowsAt(MarketIs(market_to_export))))
    /\ [][(pc = "done" /\ pc' = "done" /\ df' = df /\ market_to_export' = market_to_export)
            => market_csv' = market_csv]_vars

\* The chosen market is deselected and the view is empty, yet the export
\* holds a row that the filters would have kept.
C4_Witness ==
    /\ pc = "done"
    /\ market_to_export \notin selected_markets
    /\ filtered_df = <<>>
    /\ \E i \in MarketIs(market_to_export) : InRange(df.rows[i])
    /\ LineCount(market_csv) = 1 + Cardinality(MarketIs(market_to_export))
    /\ \E i \in 1..Len(df.rows) : i \notin MarketIs(market_to_export)

\* C5: with a non-empty Dataset and any distance range, selecting no market
\* gives an empty view.
C5_NoMarketNoRows ==
    (pc = "done" /\ selected_markets = {}) => filtered_df = <<>>

\* Nothing is selected although a row lies within the range.
C5_Witness ==
    /\ pc = "done"
    /\ selected_markets = {}
    /\ \E i \in 1..Len(df.rows) : InRange(df.rows[i])
    /\ filtered_df = <<>>

\* C6: when the view is empty the metrics are 0 records, 0 markets, and an
\* undefined mean and maximum, and the run goes on to the charts, the table
\* and the downloads.
C6_EmptyViewMetrics ==
    (pc = "done" /\ filtered_df = <<>>) =>
        /\ metrics.total = 0
        /\ metrics.markets = 0
        /\ metrics.avg.kind = "nan"
        /\ metrics.max.t = "nan"
        /\ (MetricElems \cup ChartElems \cup TableElems \cup DownloadElems) \subseteq rendered
        /\ Tokenize(csv_filtered, "field", <<>>, <<>>, <<>>) = <<Header>>

\* Markets are selected and rows exist, but the range leaves none of them in.
C6_Witness ==
    /\ pc = "done"
    /\ filtered_df = <<>>
    /\ selected_markets # {}
    /\ \E i \in 1..Len(df.rows) : df.rows[i].Distance.t = "float"
    /\ metrics.avg.kind = "nan"
    /\ "histogram" \in rendered

\* Rows of the loaded file whose Distance field did not parse.
Unparsed ==
    {i \in 1..Len(cache.source) :
        ~(IsIntText(cache.source[i][1]) \/ IsFloatText(cache.source[i][1]))}

\* The FilterState the widgets start with: every market selected and the
\* range spanning every distance present.
IsDefaultState ==
    /\ selected_markets = {df.rows[i].Market : i \in 1..Len(df.rows)}
    /\ \A i \in 1..Len(df.rows) : i \notin Unparsed => InRange(df.rows[i])

\* C9: a row whose Distance did not parse is missing after load and is in no
\* view; under the default FilterState the view is the Dataset minus those
\* rows; the targeted export of their market still holds them.
C9_MissingDistance ==
    pc = "done" =>
        /\ \A i \in Unparsed : df.rows[i].Distance.t = "nan"
        /\ \A k \in 1..Len(filtered_df) : filtered_df[k].Distance.t # "nan"
        /\ \E idx \in SUBSET ((1..Len(df.rows)) \ Unparsed) :
              filtered_df = RowsAt(idx)
        /\ IsDefaultState => filtered_df = RowsAt((1..Len(df.rows)) \ Unparsed)
        /\ LET out == Tokenize(market_csv, "field", <<>>, <<>>, <<>>)
           IN Cardinality({k \in 2..Len(out) : out[k][1] = <<>>})
                = Cardinality(Unparsed \cap MarketIs(market_to_export))

\* The default FilterState on a Dataset with a parsed and an unparsed row of
\* the exported market.
C9_Witness ==
    /\ pc = "done"
    /\ IsDefaultState
    /\ Unparsed \cap MarketIs(market_to_export) # {}
    /\ filtered_df # <<>>
    /\ Len(filtered_df) < Len(df.rows)
    /\ LineCount(market_csv) > 1 + Len(filtered_df)

====
